---- MODULE Spec2Model ----
(***************************************************************************)
(* Model of app.py of scholarspeaker: the chunker (split_text_smart), the  *)
(* history store (save_to_history, a read-modify-write of index.json run   *)
(* by several sessions against one shared directory) and the view          *)
(* controller (session state, sidebar, upload view, history view).         *)
(*                                                                         *)
(* Strings are sequences of one-character tokens, so that formatting       *)
(* (f"{timestamp}_{filename}.txt", json.dump) and parsing (json.load) are   *)
(* computed, and a file has a length that an overwrite can fall short of.  *)
(***************************************************************************)
EXTENDS Integers, Sequences, FiniteSets, TLC

\* ---------------------------------------------------------------- bounds
MaxClock == 1      \* time.time() takes the values 0..MaxClock (seconds)
MaxSaves == 2      \* generation actions that may run to a save
MaxDeleted == 1    \* files removed out of band at any one time
MaxLen == 4        \* longest text handed to the chunker
MaxT == 3          \* largest max_chars handed to the chunker

Sessions == {1, 2}
FileNames == {<<"a">>, <<"b", "b">>}
Scripts == {"script"}     \* what the generative service answers
Excerpts == {"excerpt"}   \* raw_text[:3000] of the uploaded document
Chars == {"x", "\n"}

VARIABLES
    clock,            \* the wall clock, in seconds
    indexFile,        \* content of history_data/index.json
    files,            \* the other files of history_data: path -> content
    pc,               \* where each session's script run stands
    filename,         \* uploaded_file.name of the running action
    mode,             \* "podcast" or "read"
    text_content,     \* podcast_script / short_text
    timestamp,        \* save_to_history: timestamp
    date,             \* save_to_history: new_record["date"]
    data,             \* save_to_history: the list json.load returned
    current_view,     \* st.session_state.current_view
    selected_record,  \* st.session_state.selected_record (<<>> is None)
    rendered,         \* what the last run of the script put on the page
    written,          \* history: paths save_to_history has written in full
    completed,        \* history: save_to_history calls that returned
    started,          \* history: generation actions started
    interleaved,      \* history: another save stepped during this call
    text,             \* chunker input
    max_chars,        \* chunker threshold
    chunks,           \* chunker output
    chunked           \* the chunker has run

storeVars == <<clock, indexFile, files, pc, filename, mode, text_content,
               timestamp, date, data, written, completed, started,
               interleaved>>
viewVars == <<current_view, selected_record, rendered>>
chunkVars == <<text, max_chars, chunks, chunked>>
vars == <<storeVars, viewVars, chunkVars>>

\* ------------------------------------------------------- string helpers
Digits == <<"0", "1", "2", "3", "4", "5", "6", "7", "8", "9">>

\* str(n) as f"{timestamp}" and json.dump write an integer
Str(n) == Digits[n + 1]

IsInt(tok) == \E n \in 1..Len(Digits) : Digits[n] = tok

\* int(tok) as json.load reads an integer
ToInt(tok) == (CHOOSE n \in 1..Len(Digits) : Digits[n] = tok) - 1

RECURSIVE Concat(_)
\* "".join(seqs)
Concat(seqs) ==
    IF seqs = <<>> THEN <<>> ELSE Head(seqs) \o Concat(Tail(seqs))

\* ------------------------------------------------------------- chunker
RECURSIVE SplitLines(_)
\* text.split('\n')
SplitLines(t) ==
    IF \A i \in 1..Len(t) : t[i] # "\n"
    THEN <<t>>
    ELSE LET i == CHOOSE k \in 1..Len(t) :
                      t[k] = "\n" /\ \A j \in 1..(k - 1) : t[j] # "\n"
         IN  <<SubSeq(t, 1, i - 1)>> \o SplitLines(SubSeq(t, i + 1, Len(t)))

RECURSIVE ChunkLoop(_, _, _, _)
\* the for loop over paragraphs
ChunkLoop(paragraphs, chunkList, current_chunk, max) ==
    IF paragraphs = <<>>
    THEN [chunks |-> chunkList, current_chunk |-> current_chunk]
    ELSE LET para == Head(paragraphs)
         IN  IF Len(current_chunk) + Len(para) < max
             THEN ChunkLoop(Tail(paragraphs), chunkList,
                            current_chunk \o para \o <<"\n">>, max)
             ELSE ChunkLoop(Tail(paragraphs), Append(chunkList, current_chunk),
                            para \o <<"\n">>, max)

\* mutant: the line that overflows the buffer is dropped at the flush
split_text_smart_drop(t, max) ==
    LET paras == SplitLines(t)
        kept == SelectSeq(paras, LAMBDA p : Len(p) < max)
        r == ChunkLoop(kept, <<>>, <<>>, max)
    IN  IF r.current_chunk # <<>> THEN Append(r.chunks, r.current_chunk)
        ELSE r.chunks

split_text_smart(t, max) ==
    LET r == ChunkLoop(SplitLines(t), <<>>, <<>>, max)
    IN  IF r.current_chunk # <<>> THEN Append(r.chunks, r.current_chunk)
        ELSE r.chunks

\* ------------------------------------------------------- history files
Q == "\""

\* os.path.join(HISTORY_DIR, f"{timestamp}_{filename}.txt")
TextPath(ts, name) == <<"history_data", "/", Str(ts), "_">> \o name \o <<".txt">>

\* os.path.join(HISTORY_DIR, f"{timestamp}_{filename}.mp3")
AudioPath(ts, name) == <<"history_data", "/", Str(ts), "_">> \o name \o <<".mp3">>

\* datetime.now().strftime("%Y-%m-%d %H:%M"): the clock to the minute
DateStr(now) == Str(now \div 60)

\* the audio the speech service returns for a text
Speech(t) == IF t = "script" THEN "script audio" ELSE "excerpt audio"

\* the dict built as new_record
Record(ts, name, m, d) ==
    [id |-> ts, filename |-> name, mode |-> m, date |-> d,
     text_path |-> TextPath(ts, name), audio_path |-> AudioPath(ts, name)]

\* json.dump of a string
EncStr(s) == <<Q>> \o s \o <<Q>>

\* json.dump of one record
EncRec(r) ==
    <<"{", Str(r.id)>> \o EncStr(r.filename) \o EncStr(<<r.mode>>)
        \o EncStr(<<r.date>>) \o EncStr(r.text_path) \o EncStr(r.audio_path)
        \o <<"}">>

RECURSIVE EncRecs(_)
EncRecs(recs) ==
    IF Len(recs) = 0 THEN <<>>
    ELSE IF Len(recs) = 1 THEN EncRec(recs[1])
    ELSE EncRec(recs[1]) \o <<",">> \o EncRecs(Tail(recs))

\* json.dump(data, f): the text written for a list of records
Encode(recs) == <<"[">> \o EncRecs(recs) \o <<"]">>

NoParse == [ok |-> FALSE, val |-> <<>>, next |-> 0]

\* json.load of a string starting at position i of b
ParseStr(b, i) ==
    IF i <= Len(b) /\ b[i] = Q /\ \E j \in (i + 1)..Len(b) : b[j] = Q
    THEN LET j == CHOOSE k \in (i + 1)..Len(b) :
                      b[k] = Q /\ \A m \in (i + 1)..(k - 1) : b[m] # Q
         IN  [ok |-> TRUE, val |-> SubSeq(b, i + 1, j - 1), next |-> j + 1]
    ELSE NoParse

\* json.load of one record starting at position i of b
ParseRec(b, i) ==
    IF ~(i + 1 <= Len(b) /\ b[i] = "{" /\ IsInt(b[i + 1])) THEN NoParse
    ELSE
    LET name == ParseStr(b, i + 2) IN
    IF ~name.ok THEN NoParse ELSE
    LET m == ParseStr(b, name.next) IN
    IF ~(m.ok /\ Len(m.val) = 1) THEN NoParse ELSE
    LET d == ParseStr(b, m.next) IN
    IF ~(d.ok /\ Len(d.val) = 1) THEN NoParse ELSE
    LET tp == ParseStr(b, d.next) IN
    IF ~tp.ok THEN NoParse ELSE
    LET ap == ParseStr(b, tp.next) IN
    IF ~(ap.ok /\ ap.next <= Len(b) /\ b[ap.next] = "}") THEN NoParse
    ELSE [ok |-> TRUE,
          val |-> [id |-> ToInt(b[i + 1]), filename |-> name.val,
                   mode |-> m.val[1], date |-> d.val[1],
                   text_path |-> tp.val, audio_path |-> ap.val],
          next |-> ap.next + 1]

RECURSIVE ParseRecs(_, _, _)
\* json.load of the records of a list, the first at position i of b
ParseRecs(b, i, acc) ==
    LET r == ParseRec(b, i) IN
    IF ~r.ok \/ r.next > Len(b) THEN NoParse
    ELSE IF b[r.next] = "]"
         THEN [ok |-> TRUE, val |-> Append(acc, r.val), next |-> r.next + 1]
    ELSE IF b[r.next] = ","
         THEN ParseRecs(b, r.next + 1, Append(acc, r.val))
    ELSE NoParse

\* json.load(f): the list, or a JSONDecodeError (ok = FALSE), which
\* text after the end of the list raises as well ("Extra data")
Parse(b) ==
    IF Len(b) < 2 \/ b[1] # "[" THEN NoParse
    ELSE LET v == IF b[2] = "]"
                  THEN [ok |-> TRUE, val |-> <<>>, next |-> 3]
                  ELSE ParseRecs(b, 2, <<>>)
         IN  IF v.ok /\ v.next = Len(b) + 1 THEN v ELSE NoParse

\* f.seek(0); f.write(new) on a file opened "r+": the bytes of old past
\* the end of new stay, the file is not truncated
Overwrite(old, new) ==
    IF Len(new) < Len(old)
    THEN new \o SubSeq(old, Len(new) + 1, Len(old))
    ELSE new

\* open(path, "w"); f.write(content)
Put(fs, path, content) ==
    [q \in (DOMAIN fs) \cup {path} |-> IF q = path THEN content ELSE fs[q]]

\* os.path.exists(path)
Exists(path) == path \in DOMAIN files

\* ------------------------------------------------------ session state
SavePcs == {"write_text", "write_audio", "read_index", "write_index"}

\* the session is inside save_to_history
InSave(t) == pc[t] \in SavePcs

\* the json.load of the sidebar (line 139) and of save_to_history (line 115)
Index == Parse(indexFile)

\* the step of save_to_history by s falls inside every other running call
Mark(s) ==
    [t \in Sessions |-> IF t # s /\ InSave(t) THEN TRUE ELSE interleaved[t]]

\* the record save_to_history of session s builds as new_record
NewRecord(s) == Record(timestamp[s], filename[s], mode[s], date[s])

\* the main area of one run of the script, by view
MainArea(view, sel) ==
    IF view = "upload" THEN {"title", "uploader"}
    ELSE IF sel = <<>> THEN {}
    ELSE {"title", "caption"}
         \cup (IF Exists(sel[1].audio_path) THEN {"audio"}
               ELSE {"audio_error"})
         \cup (IF Exists(sel[1].text_path) THEN {"text"} ELSE {})

\* one run of the script with no action button pressed: the sidebar's
\* json.load raises on a malformed index before the main area is reached
Page(view, sel) ==
    IF Index.ok THEN MainArea(view, sel) ELSE {"JSONDecodeError"}

\* locals of a run that has ended
Forget(s) ==
    /\ filename' = [filename EXCEPT ![s] = <<>>]
    /\ mode' = [mode EXCEPT ![s] = "read"]
    /\ text_content' = [text_content EXCEPT ![s] = ""]
    /\ timestamp' = [timestamp EXCEPT ![s] = 0]
    /\ date' = [date EXCEPT ![s] = "0"]
    /\ data' = [data EXCEPT ![s] = <<>>]

\* actions still allowed to start, so that the index stays bounded
Budget == started < MaxSaves

InitStore ==
    /\ clock = 0
    /\ indexFile = Encode(<<>>)
    /\ files = <<>>
    /\ pc = [s \in Sessions |-> "idle"]
    /\ filename = [s \in Sessions |-> <<>>]
    /\ mode = [s \in Sessions |-> "read"]
    /\ text_content = [s \in Sessions |-> ""]
    /\ timestamp = [s \in Sessions |-> 0]
    /\ date = [s \in Sessions |-> "0"]
    /\ data = [s \in Sessions |-> <<>>]
    /\ current_view = [s \in Sessions |-> "upload"]
    /\ selected_record = [s \in Sessions |-> <<>>]
    /\ rendered = [s \in Sessions |-> {"title", "uploader"}]
    /\ written = {}
    /\ completed = 0
    /\ started = 0
    /\ interleaved = [s \in Sessions |-> FALSE]

\* the running application: the chunker is never called (no call site)
Init ==
    /\ InitStore
    /\ text = <<>>
    /\ max_chars = 1
    /\ chunks = <<>>
    /\ chunked = FALSE

\* ------------------------------------------------------------ environment
\* a second passes
Tick ==
    /\ clock < MaxClock
    /\ clock' = clock + 1
    /\ UNCHANGED <<indexFile, files, pc, filename, mode, text_content,
                   timestamp, date, data, written, completed, started, interleaved,
                   viewVars, chunkVars>>

\* a text or audio file is removed out of band
DeleteFile(p) ==
    /\ p \in DOMAIN files
    /\ Cardinality(written \ DOMAIN files) < MaxDeleted
    /\ files' = [q \in (DOMAIN files) \ {p} |-> files[q]]
    /\ UNCHANGED <<clock, indexFile, pc, filename, mode, text_content,
                   timestamp, date, data, written, completed, started, interleaved,
                   viewVars, chunkVars>>

\* ------------------------------------------------------- upload pipeline
\* "generate podcast" pressed: the text is extracted and the prompt sent
GeneratePodcast(s, f) ==
    /\ pc[s] = "idle" /\ current_view[s] = "upload" /\ Index.ok /\ Budget
    /\ pc' = [pc EXCEPT ![s] = "script"]
    /\ filename' = [filename EXCEPT ![s] = f]
    /\ mode' = [mode EXCEPT ![s] = "podcast"]
    /\ rendered' = [rendered EXCEPT ![s] = {"title", "uploader", "spinner"}]
    /\ started' = started + 1
    /\ UNCHANGED <<clock, indexFile, files, text_content, timestamp, date,
                   data, written, completed, interleaved, current_view,
                   selected_record, chunkVars>>

\* generate_podcast_script returns the script t
ScriptOk(s, t) ==
    /\ pc[s] = "script"
    /\ pc' = [pc EXCEPT ![s] = "tts"]
    /\ text_content' = [text_content EXCEPT ![s] = t]
    /\ UNCHANGED <<clock, indexFile, files, filename, mode, timestamp, date,
                   data, written, completed, started, interleaved, viewVars, chunkVars>>

\* "read excerpt" pressed: short_text t is extracted and sent to speech
ReadExcerpt(s, f, t) ==
    /\ pc[s] = "idle" /\ current_view[s] = "upload" /\ Index.ok /\ Budget
    /\ pc' = [pc EXCEPT ![s] = "tts"]
    /\ filename' = [filename EXCEPT ![s] = f]
    /\ mode' = [mode EXCEPT ![s] = "read"]
    /\ text_content' = [text_content EXCEPT ![s] = t]
    /\ rendered' = [rendered EXCEPT ![s] = {"title", "uploader", "spinner"}]
    /\ started' = started + 1
    /\ UNCHANGED <<clock, indexFile, files, timestamp, date, data, written,
                   completed, interleaved, current_view, selected_record,
                   chunkVars>>

\* mutant: the text is saved although the service call failed
FilesOnServiceErrorSaved(s) ==
    Put(files, TextPath(clock, filename[s]), text_content[s])

\* no handler around the service calls: nothing is written on an error
FilesOnServiceError(s) == files

\* the run of s ends on an uncaught exception, which the page shows
Abort(s, exception) ==
    /\ pc' = [pc EXCEPT ![s] = "idle"]
    /\ rendered' = [rendered EXCEPT ![s] = {"title", "uploader", exception}]
    /\ Forget(s)

\* client.chat.completions.create raises
ScriptFail(s) ==
    /\ pc[s] = "script"
    /\ files' = FilesOnServiceError(s)
    /\ Abort(s, "APIError")
    /\ UNCHANGED <<clock, indexFile, written, completed, started, interleaved,
                   current_view,
                   selected_record, chunkVars>>

\* client.audio.speech.create raises
TtsFail(s) ==
    /\ pc[s] = "tts"
    /\ files' = FilesOnServiceError(s)
    /\ Abort(s, "APIError")
    /\ UNCHANGED <<clock, indexFile, written, completed, started, interleaved,
                   current_view,
                   selected_record, chunkVars>>

\* text_to_speech returns; save_to_history is entered and reads the clock
TtsOk(s) ==
    /\ pc[s] = "tts"
    /\ pc' = [pc EXCEPT ![s] = "write_text"]
    /\ timestamp' = [timestamp EXCEPT ![s] = clock]
    /\ interleaved' = [Mark(s) EXCEPT ![s] = FALSE]
    /\ UNCHANGED <<clock, indexFile, files, filename, mode, text_content,
                   date, data, written, completed, started, viewVars, chunkVars>>

\* -------------------------------------------------------- save_to_history
\* mutant: the index is updated without waiting for the audio file
AfterWriteTextSkip == "read_index"

\* the statement after the text file's with block: the audio file
AfterWriteText == "write_audio"

\* mutant: the new record is appended at the end of the list
InsertAtEnd(list, rec) == Append(list, rec)

\* data.insert(0, new_record)
Insert(list, rec) == <<rec>> \o list

\* mutant: the list is read again, under a lock, when it is written back
LoadedFresh(s) == Index.val

\* the list read at line 115, as it stands when line 116 inserts into it
Loaded(s) == data[s]

\* open(text_path, "w") and f.write(text_content) succeed
SaveWriteText(s) ==
    /\ pc[s] = "write_text"
    /\ files' = Put(files, TextPath(timestamp[s], filename[s]), text_content[s])
    /\ written' = written \cup {TextPath(timestamp[s], filename[s])}
    /\ pc' = [pc EXCEPT ![s] = AfterWriteText]
    /\ interleaved' = Mark(s)
    /\ UNCHANGED <<clock, indexFile, filename, mode, text_content, timestamp,
                   date, data, completed, started, viewVars, chunkVars>>

\* an exception leaves save_to_history and ends the run
SaveAbort(s, exception) ==
    /\ Abort(s, exception)
    /\ interleaved' = Mark(s)
    /\ UNCHANGED <<clock, indexFile, written, completed, started, current_view,
                   selected_record, chunkVars>>

\* the text write raises: at open (no file) or at write (a truncated file)
SaveWriteTextFail(s, opened) ==
    /\ pc[s] = "write_text"
    /\ files' = IF opened
                THEN Put(files, TextPath(timestamp[s], filename[s]), "")
                ELSE files
    /\ SaveAbort(s, "OSError")

\* open(audio_path, "wb") and f.write succeed; new_record is built
SaveWriteAudio(s) ==
    /\ pc[s] = "write_audio"
    /\ files' = Put(files, AudioPath(timestamp[s], filename[s]),
                    Speech(text_content[s]))
    /\ written' = written \cup {AudioPath(timestamp[s], filename[s])}
    /\ date' = [date EXCEPT ![s] = DateStr(clock)]
    /\ pc' = [pc EXCEPT ![s] = "read_index"]
    /\ interleaved' = Mark(s)
    /\ UNCHANGED <<clock, indexFile, filename, mode, text_content, timestamp,
                   data, completed, started, viewVars, chunkVars>>

\* the audio write raises: the text file stays, no record is made
SaveWriteAudioFail(s, opened) ==
    /\ pc[s] = "write_audio"
    /\ files' = IF opened
                THEN Put(files, AudioPath(timestamp[s], filename[s]), "")
                ELSE files
    /\ SaveAbort(s, "OSError")

\* open(HISTORY_FILE, "r+") and json.load(f), which raises on a malformed
\* index and ends the run
SaveReadIndex(s) ==
    /\ pc[s] = "read_index"
    /\ IF Index.ok
       THEN /\ data' = [data EXCEPT ![s] = Index.val]
            /\ pc' = [pc EXCEPT ![s] = "write_index"]
            /\ interleaved' = Mark(s)
            /\ UNCHANGED <<clock, indexFile, files, filename, mode,
                           text_content, timestamp, date, written, completed,
                           started, viewVars, chunkVars>>
       ELSE /\ files' = files
            /\ SaveAbort(s, "JSONDecodeError")

\* data.insert(0, new_record); f.seek(0); json.dump(data, f); the run
\* goes on to st.success and the player
SaveWriteIndex(s) ==
    /\ pc[s] = "write_index"
    /\ indexFile' = Overwrite(indexFile, Encode(Insert(Loaded(s), NewRecord(s))))
    /\ completed' = completed + 1
    /\ pc' = [pc EXCEPT ![s] = "idle"]
    /\ rendered' = [rendered EXCEPT ![s] =
                       {"title", "uploader", "success", "audio"}
                       \cup (IF mode[s] = "podcast" THEN {"script"} ELSE {})]
    /\ Forget(s)
    /\ interleaved' = Mark(s)
    /\ UNCHANGED <<clock, files, written, started, current_view,
                   selected_record, chunkVars>>

\* ------------------------------------------------------- view controller
\* mutant: the click changes the view and forgets to store the record
SelectedAfterClickKept(s, rec) == selected_record[s]

\* st.session_state.selected_record = record
SelectedAfterClick(s, rec) == <<rec>>

\* the script runs with no button pressed (any other interaction)
Rerun(s) ==
    /\ pc[s] = "idle"
    /\ rendered' = [rendered EXCEPT ![s] =
                       Page(current_view[s], selected_record[s])]
    /\ UNCHANGED <<storeVars, current_view, selected_record, chunkVars>>

\* the "upload new document" button
UploadNew(s) ==
    /\ pc[s] = "idle"
    /\ current_view' = [current_view EXCEPT ![s] = "upload"]
    /\ rendered' = [rendered EXCEPT ![s] = Page("upload", selected_record[s])]
    /\ UNCHANGED <<storeVars, selected_record, chunkVars>>

\* the sidebar button of the i-th record of the index
ClickHistory(s, i) ==
    /\ pc[s] = "idle"
    /\ Index.ok
    /\ i \in 1..Len(Index.val)
    /\ current_view' = [current_view EXCEPT ![s] = "history"]
    /\ selected_record' = [selected_record EXCEPT ![s] =
                              SelectedAfterClick(s, Index.val[i])]
    /\ rendered' = [rendered EXCEPT ![s] =
                       MainArea("history", selected_record'[s])]
    /\ UNCHANGED <<storeVars, chunkVars>>

\* ------------------------------------------------------------ the system
\* the steps of "generate podcast" and "read excerpt" of session s
StoreStep(s) ==
    \/ \E f \in FileNames : GeneratePodcast(s, f)
    \/ \E t \in Scripts : ScriptOk(s, t)
    \/ ScriptFail(s)
    \/ \E f \in FileNames, t \in Excerpts : ReadExcerpt(s, f, t)
    \/ TtsOk(s)
    \/ TtsFail(s)
    \/ SaveWriteText(s)
    \/ \E opened \in BOOLEAN : SaveWriteTextFail(s, opened)
    \/ SaveWriteAudio(s)
    \/ \E opened \in BOOLEAN : SaveWriteAudioFail(s, opened)
    \/ SaveReadIndex(s)
    \/ SaveWriteIndex(s)

\* the interactions of session s that only move between the views
ViewStep(s) ==
    \/ Rerun(s)
    \/ UploadNew(s)
    \/ \E i \in 1..MaxSaves : ClickHistory(s, i)

\* the history store shared by the sessions
Next ==
    \/ Tick
    \/ \E s \in Sessions : StoreStep(s)

Spec == Init /\ [][Next]_vars

\* one session, with its view controller
NextView ==
    \/ Tick
    \/ StoreStep(1)
    \/ ViewStep(1)

SpecView == Init /\ [][NextView]_vars

\* one session, with its view controller, and files removed out of band
NextHistory ==
    \/ Tick
    \/ \E p \in DOMAIN files : DeleteFile(p)
    \/ StoreStep(1)
    \/ ViewStep(1)

SpecHistory == Init /\ [][NextHistory]_vars

\* ------------------------------------------------- the chunker on its own
Strings == UNION {[1..n -> Chars] : n \in 0..MaxLen}

InitChunk ==
    /\ InitStore
    /\ text \in Strings
    /\ max_chars \in 1..MaxT
    /\ chunks = <<>>
    /\ chunked = FALSE

\* chunks = split_text_smart(text, max_chars)
Chunk ==
    /\ ~chunked
    /\ chunks' = split_text_smart(text, max_chars)
    /\ chunked' = TRUE
    /\ UNCHANGED <<storeVars, viewVars, text, max_chars>>

NextChunk == Chunk

SpecChunk == InitChunk /\ [][NextChunk]_vars

\* ================================================================ claims
\* the ids of a list of records never rise from one record to the next
NewestFirst(recs) ==
    \A i \in 1..(Len(recs) - 1) : recs[i].id >= recs[i + 1].id

\* C1: a successful save_to_history call that no other save interleaves
\* leaves the index as it was with exactly one new record put at position
\* 0, all earlier records unchanged behind it, and the new record's id is
\* at least the id of the record that was at position 0.
C1_PrependsOneRecord ==
    [][\A s \in Sessions :
         (SaveWriteIndex(s) /\ ~interleaved[s]) =>
            LET before == Parse(indexFile)
                after == Parse(indexFile')
            IN  /\ before.ok /\ after.ok
                /\ Len(after.val) = Len(before.val) + 1
                /\ after.val[1] = Record(timestamp[s], filename[s], mode[s],
                                         date[s])
                /\ \A i \in 1..Len(before.val) : after.val[i + 1] = before.val[i]
                /\ Len(before.val) > 0 => after.val[1].id >= before.val[1].id
      ]_vars

\* two calls have returned, none of them interleaved, the second one onto
\* an index that held the first one's record
C1_Witness ==
    /\ completed = 2
    /\ \A s \in Sessions : pc[s] = "idle" /\ ~interleaved[s]
    /\ Index.ok /\ Len(Index.val) = 2
    /\ Index.val[1].id > Index.val[2].id

\* C2: in every reachable state the content of index.json is a well-formed
\* sequence of HistoryRecord with no leftover bytes after it, newest first.
C2_IndexWellFormed == Index.ok /\ NewestFirst(Index.val)

\* C3: every record of the index, and every record about to be written,
\* points to a text file and an audio file that save_to_history had written
\* before; a failed text or audio write ends the call with the index
\* unchanged.
C3_RecordsHaveFiles ==
    /\ Index.ok =>
          \A i \in 1..Len(Index.val) :
              {Index.val[i].text_path, Index.val[i].audio_path} \subseteq written
    /\ \A s \in Sessions :
          pc[s] \in {"read_index", "write_index"} =>
              {TextPath(timestamp[s], filename[s]),
               AudioPath(timestamp[s], filename[s])} \subseteq written

C3_IndexAfterFiles ==
    /\ []C3_RecordsHaveFiles
    /\ [][\A s \in Sessions :
            (\E opened \in BOOLEAN :
                SaveWriteTextFail(s, opened) \/ SaveWriteAudioFail(s, opened))
            => indexFile' = indexFile /\ pc'[s] = "idle"
         ]_vars

\* the audio write failed after the text write: a text file without a
\* record, and an index without any record
C3_Witness ==
    /\ \E s \in Sessions : pc[s] = "idle" /\ "OSError" \in rendered[s]
    /\ Index.ok /\ Len(Index.val) = 0
    /\ \E ts \in 0..MaxClock, f \in FileNames :
          TextPath(ts, f) \in written /\ AudioPath(ts, f) \notin written

\* every action started so far has returned from save_to_history: the
\* state follows a sequence of successful calls
AllCallsReturned == started = completed

\* C4: after any sequence of successful save_to_history calls no two
\* records of the index have the same id.
C4_UniqueIds ==
    (Index.ok /\ AllCallsReturned) =>
        \A i, j \in 1..Len(Index.val) :
            i # j => Index.val[i].id # Index.val[j].id

\* C5: when the generative-text call or the speech call fails the action
\* ends there: no file is written, the index is unchanged and the call is
\* not made again.
C5_ServiceErrorAborts ==
    [][\A s \in Sessions :
         (ScriptFail(s) \/ TtsFail(s)) =>
            /\ files' = files
            /\ indexFile' = indexFile
            /\ written' = written
            /\ pc'[s] = "idle"
      ]_vars

\* a service call failed and the directory is as empty as before
C5_Witness ==
    /\ \E s \in Sessions : pc[s] = "idle" /\ "APIError" \in rendered[s]
    /\ started = 1 /\ completed = 0
    /\ files = <<>> /\ indexFile = Encode(<<>>)

\* C6: a run that renders the history view of a record shows an error
\* indicator for a missing audio file and for a missing text file, and
\* renders the rest of the view without an exception.
C6_MissingAssetShown ==
    [][\A s \in Sessions :
         ((Rerun(s) \/ \E i \in 1..MaxSaves : ClickHistory(s, i))
             /\ current_view'[s] = "history" /\ selected_record'[s] # <<>>
             /\ Index.ok) =>
            LET r == selected_record'[s][1]
            IN  /\ {"title", "caption"} \subseteq rendered'[s]
                /\ ~Exists(r.audio_path) => "audio_error" \in rendered'[s]
                /\ ~Exists(r.text_path) => "text_error" \in rendered'[s]
      ]_vars

C8_LostUpdate ==
    [][\A t \in Sessions :
         (SaveWriteIndex(t) /\ ~(Index.ok /\ Index.val = data[t])) =>
            LET after == Parse(indexFile')
            IN  after.ok =>
                   /\ Len(after.val) = Len(data[t]) + 1
                   /\ \A i \in 1..Len(data[t]) : after.val[i + 1] = data[t][i]
      ]_vars

\* two calls have returned and the index holds one record
C8_Witness ==
    /\ completed = 2
    /\ \A s \in Sessions : pc[s] = "idle"
    /\ Index.ok /\ Len(Index.val) = 1

\* the text a call of the given mode passes to save_to_history
TextOf(m) == IF m = "podcast" THEN "script" ELSE "excerpt"

\* C9: after any sequence of successful save_to_history calls no two
\* records of the index share a text_path or an audio_path, and the files
\* of a record hold what was passed to the call that made it.
C9_DistinctPaths ==
    (Index.ok /\ AllCallsReturned) =>
        /\ \A i, j \in 1..Len(Index.val) :
              i # j => /\ Index.val[i].text_path # Index.val[j].text_path
                       /\ Index.val[i].audio_path # Index.val[j].audio_path
        /\ \A i \in 1..Len(Index.val) :
              /\ Exists(Index.val[i].text_path) =>
                    files[Index.val[i].text_path] = TextOf(Index.val[i].mode)
              /\ Exists(Index.val[i].audio_path) =>
                    files[Index.val[i].audio_path]
                        = Speech(TextOf(Index.val[i].mode))

\* C10: a session starts in the upload view with no selected record; the
\* view is upload or history; in the history view a record is selected;
\* the selected record changes only by a click on a record of the sidebar;
\* history is left only by the upload button, which keeps the selection.
C10_ViewInv ==
    \A s \in Sessions :
        /\ current_view[s] \in {"upload", "history"}
        /\ current_view[s] = "history" => selected_record[s] # <<>>

C10_ViewController ==
    /\ \A s \in Sessions :
          current_view[s] = "upload" /\ selected_record[s] = <<>>
    /\ []C10_ViewInv
    /\ [][\A s \in Sessions :
            /\ selected_record'[s] # selected_record[s] =>
                  \E i \in 1..Len(Index.val) :
                      /\ ClickHistory(s, i)
                      /\ selected_record'[s] = <<Index.val[i]>>
            /\ (current_view[s] = "history" /\ current_view'[s] = "upload") =>
                  UploadNew(s) /\ selected_record'[s] = selected_record[s]
         ]_vars

\* back in the upload view with the record clicked earlier still selected
C10_Witness ==
    \E s \in Sessions :
        current_view[s] = "upload" /\ selected_record[s] # <<>>

====
